------------------------------ MODULE Spec2Model ------------------------------
(***************************************************************************)
(* Konva.Image (src/src/shapes/Image.ts): the attribute accessors, the     *)
(* size fallback, the scene and hit drawing functions, the buffer-canvas   *)
(* predicate and the static loader fromURL.                                *)
(*                                                                         *)
(* A node's `attrs` object is a function whose DOMAIN is the set of        *)
(* attribute names that have been assigned; a name outside the DOMAIN      *)
(* reads as JavaScript's undefined.  The drawing context is observed       *)
(* through the sequence of calls the last drawing function made on it.     *)
(***************************************************************************)
EXTENDS Integers, Sequences, FiniteSets, TLC

VARIABLES
  attrs,       \* this.attrs of the node under test
  shape,       \* what the inherited Shape predicates answer for the node
  last,        \* the most recent operation on the node and its argument
  ret,         \* the value the most recent predicate call returned
  ctx,         \* calls made on the context by the most recent draw
  threw,       \* TRUE iff the most recent draw let an exception escape
  everFailed,  \* TRUE iff some earlier drawImage call raised
  elems,       \* the image elements made by fromURL, by call number
  cbCalls,     \* per fromURL call, the nodes its callback has received
  running      \* the fromURL call that is executing (0: none)

vars == <<attrs, shape, last, ret, ctx, threw, everFailed, elems, cbCalls, running>>

-------------------------------------------------------------------------------
(* Bounds *)

\* numeric attribute values range over 0..MaxVal
MaxVal == 1
\* number of fromURL calls
MaxLoads == 3

Vals == 0..MaxVal

-------------------------------------------------------------------------------
(* Image sources: opaque handles with an intrinsic width and height *)

Images == {"img1", "img2"}

ImgWidth(img) == IF img = "img1" THEN 1 ELSE 2

ImgHeight(img) == IF img = "img1" THEN 2 ELSE 1

-------------------------------------------------------------------------------
(* Factory-generated accessors *)

\* getter installed by Factory.addGetterSetter: stored value, or the default
Getter(a, name, def) == IF name \in DOMAIN a THEN a[name] ELSE def

\* setter installed by Factory.addGetterSetter: store one attribute
Setter(a, name, v) ==
  [n \in (DOMAIN a) \cup {name} |-> IF n = name THEN v ELSE a[n]]

\* this.image(): TRUE iff the stored reference is truthy
HasImage(a) == "image" \in DOMAIN a

cropX(a) == Getter(a, "cropX", 0)

\* mutant: the cropY accessor registered over the cropX attribute
cropY_overCropX(a) == Getter(a, "cropX", 0)

cropY(a) == Getter(a, "cropY", 0)

cropWidth(a) == Getter(a, "cropWidth", 0)

cropHeight(a) == Getter(a, "cropHeight", 0)

\* mutant: the operands of || swapped, the intrinsic width wins
getWidth_intrinsicFirst(a) ==
  IF HasImage(a) /\ ImgWidth(a["image"]) # 0 THEN ImgWidth(a["image"])
  ELSE IF "width" \in DOMAIN a THEN a["width"] ELSE 0

\* this.attrs.width || (image ? image.width : 0)
getWidth(a) ==
  IF "width" \in DOMAIN a /\ a["width"] # 0 THEN a["width"]
  ELSE IF HasImage(a) THEN ImgWidth(a["image"]) ELSE 0

\* mutant: the height falls back to the image's width
getHeight_widthFallback(a) ==
  IF "height" \in DOMAIN a /\ a["height"] # 0 THEN a["height"]
  ELSE IF HasImage(a) THEN ImgWidth(a["image"]) ELSE 0

\* this.attrs.height || (image ? image.height : 0)
getHeight(a) ==
  IF "height" \in DOMAIN a /\ a["height"] # 0 THEN a["height"]
  ELSE IF HasImage(a) THEN ImgHeight(a["image"]) ELSE 0

\* the overloaded accessor node[name]() with no argument
Get(a, name) ==
  CASE name = "width" -> getWidth(a)
    [] name = "height" -> getHeight(a)
    [] name = "cropX" -> cropX(a)
    [] name = "cropY" -> cropY(a)
    [] name = "cropWidth" -> cropWidth(a)
    [] name = "cropHeight" -> cropHeight(a)

\* the components registered for the composite attribute 'crop'
CropComponents == <<"x", "y", "width", "height">>

\* name + Capitalized(component): the attribute behind one component
CropAttr(c) ==
  CASE c = "x" -> "cropX"
    [] c = "y" -> "cropY"
    [] c = "width" -> "cropWidth"
    [] c = "height" -> "cropHeight"

\* composite getter installed by Factory.addComponentsGetterSetter: reads each
\* component through its own getter and assembles the object
getCrop(a) ==
  [c \in {CropComponents[i] : i \in DOMAIN CropComponents} |-> Get(a, CropAttr(c))]

\* composite setter: writes the components present in obj, one by one,
\* through the component setter; absent components are not written
RECURSIVE SetComponents(_, _, _)
SetComponents(a, obj, i) ==
  IF i > Len(CropComponents) THEN a
  ELSE LET c == CropComponents[i]
       IN SetComponents(IF c \in DOMAIN obj
                          THEN Setter(a, CropAttr(c), obj[c]) ELSE a,
                        obj, i + 1)

setCrop(a, obj) == SetComponents(a, obj, 1)

\* the full and partial objects a caller may pass to crop(...)
CropObjects ==
  UNION {[keys -> Vals] :
           keys \in SUBSET {CropComponents[i] : i \in DOMAIN CropComponents}}

NumAttrs == {"width", "height", "cropX", "cropY", "cropWidth", "cropHeight"}

CropAttrs == {"cropX", "cropY", "cropWidth", "cropHeight"}

-------------------------------------------------------------------------------
(* Initial state: new Image({}), nothing assigned yet *)

EmptyAttrs == [n \in {} |-> 0]

NoShape == [fill |-> FALSE, stroke |-> FALSE, shadow |-> FALSE,
            opaque |-> TRUE, stage |-> FALSE]

Init ==
  /\ attrs = EmptyAttrs
  /\ shape = NoShape
  /\ last = [op |-> "new"]
  /\ ret = "none"
  /\ ctx = <<>>
  /\ threw = FALSE
  /\ everFailed = FALSE
  /\ elems = <<>>
  /\ cbCalls = <<>>
  /\ running = 0

-------------------------------------------------------------------------------
(* Attribute setters *)

\* outside a draw there is no context, and no predicate result, to observe
Idle == ret' = "none" /\ ctx' = <<>> /\ threw' = FALSE

\* node.image(img)
SetImage(img) ==
  /\ attrs' = Setter(attrs, "image", img)
  /\ last' = [op |-> "image", val |-> img]
  /\ Idle
  /\ UNCHANGED <<shape, everFailed, elems, cbCalls, running>>

\* node[name](v) for a numeric attribute
SetNum(name, v) ==
  /\ attrs' = Setter(attrs, name, v)
  /\ last' = [op |-> "set", attr |-> name, val |-> v]
  /\ Idle
  /\ UNCHANGED <<shape, everFailed, elems, cbCalls, running>>

\* node.crop(obj) with a full or partial object
SetCrop(obj) ==
  /\ attrs' = setCrop(attrs, obj)
  /\ last' = [op |-> "crop", val |-> obj]
  /\ Idle
  /\ UNCHANGED <<shape, everFailed, elems, cbCalls, running>>

NextAttrs ==
  \/ \E img \in Images : SetImage(img)
  \/ \E name \in NumAttrs, v \in Vals : SetNum(name, v)

SpecAttrs == Init /\ [][NextAttrs]_vars

NextCrop ==
  \/ \E obj \in CropObjects : SetCrop(obj)
  \/ \E name \in CropAttrs, v \in Vals : SetNum(name, v)

SpecCrop == Init /\ [][NextCrop]_vars

-------------------------------------------------------------------------------
(* Drawing *)

\* one call on the context: its name, its object argument, its numbers
Call(op, obj, args) == [op |-> op, obj |-> obj, args |-> args]

\* context.beginPath(); context.rect(0, 0, width, height);
\* context.closePath(); context.fillStrokeShape(this)
RectPath(width, height) ==
  << Call("beginPath", "-", <<>>),
     Call("rect", "-", <<0, 0, width, height>>),
     Call("closePath", "-", <<>>),
     Call("fillStrokeShape", "this", <<>>) >>

\* the params array built when an image is present
DrawParams(a) ==
  IF cropWidth(a) # 0 /\ cropHeight(a) # 0
  THEN <<cropX(a), cropY(a), cropWidth(a), cropHeight(a),
         0, 0, getWidth(a), getHeight(a)>>
  ELSE <<0, 0, getWidth(a), getHeight(a)>>

\* mutant: the drawImage call is not guarded by try/catch
_sceneFunc_noCatch(a, sh, raises) ==
  [calls |->
     (IF sh.fill \/ sh.stroke THEN RectPath(getWidth(a), getHeight(a)) ELSE <<>>)
     \o (IF HasImage(a) THEN <<Call("drawImage", a["image"], DrawParams(a))>>
         ELSE <<>>),
   threw |-> HasImage(a) /\ raises]

\* mutant: the crop form is chosen when either crop dimension is non-zero
_sceneFunc_cropEither(a, sh, raises) ==
  [calls |->
     (IF sh.fill \/ sh.stroke THEN RectPath(getWidth(a), getHeight(a)) ELSE <<>>)
     \o (IF HasImage(a)
         THEN <<Call("drawImage", a["image"],
                     IF cropWidth(a) # 0 \/ cropHeight(a) # 0
                     THEN <<cropX(a), cropY(a), cropWidth(a), cropHeight(a),
                            0, 0, getWidth(a), getHeight(a)>>
                     ELSE <<0, 0, getWidth(a), getHeight(a)>>)>>
         ELSE <<>>),
   threw |-> FALSE]

\* mutant: return early, before the background, when there is no image
_sceneFunc_earlyReturn(a, sh, raises) ==
  [calls |->
     IF HasImage(a)
     THEN (IF sh.fill \/ sh.stroke
           THEN RectPath(getWidth(a), getHeight(a)) ELSE <<>>)
          \o <<Call("drawImage", a["image"], DrawParams(a))>>
     ELSE <<>>,
   threw |-> FALSE]

\* _sceneFunc(context): the calls made on the context, and whether an
\* exception escapes.  `raises` says whether context.drawImage raises.
_sceneFunc(a, sh, raises) ==
  [calls |->
     (IF sh.fill \/ sh.stroke THEN RectPath(getWidth(a), getHeight(a)) ELSE <<>>)
     \o (IF HasImage(a) THEN <<Call("drawImage", a["image"], DrawParams(a))>>
         ELSE <<>>),
   threw |-> FALSE]

\* mutant: the hit function also blits the image
_hitFunc_blits(a) ==
  RectPath(getWidth(a), getHeight(a))
  \o (IF HasImage(a) THEN <<Call("drawImage", a["image"], DrawParams(a))>>
      ELSE <<>>)

\* _hitFunc(context)
_hitFunc(a) == RectPath(getWidth(a), getHeight(a))

\* mutant: a source whose blit failed is dropped from the node
SceneRender_dropsFailedSource(raises) ==
  /\ ctx' = _sceneFunc(attrs, shape, raises).calls
  /\ threw' = _sceneFunc(attrs, shape, raises).threw
  /\ last' = [op |-> "scene", raised |-> HasImage(attrs) /\ raises,
              afterFailure |-> everFailed]
  /\ everFailed' = (everFailed \/ (HasImage(attrs) /\ raises))
  /\ attrs' = IF HasImage(attrs) /\ raises
              THEN [n \in DOMAIN attrs \ {"image"} |-> attrs[n]] ELSE attrs
  /\ ret' = "none"
  /\ UNCHANGED <<shape, elems, cbCalls, running>>

\* the engine calls node._sceneFunc(context) on a fresh context
SceneRender(raises) ==
  /\ ctx' = _sceneFunc(attrs, shape, raises).calls
  /\ threw' = _sceneFunc(attrs, shape, raises).threw
  /\ last' = [op |-> "scene", raised |-> HasImage(attrs) /\ raises,
              afterFailure |-> everFailed]
  /\ everFailed' = (everFailed \/ (HasImage(attrs) /\ raises))
  /\ ret' = "none"
  /\ UNCHANGED <<attrs, shape, elems, cbCalls, running>>

\* the engine calls node._hitFunc(context) on a fresh context
HitRender ==
  /\ ctx' = _hitFunc(attrs)
  /\ threw' = FALSE
  /\ last' = [op |-> "hit"]
  /\ ret' = "none"
  /\ UNCHANGED <<attrs, shape, everFailed, elems, cbCalls, running>>

\* a style or scene-graph change that flips what a Shape predicate answers
SetShape(flag, b) ==
  /\ shape' = [shape EXCEPT ![flag] = b]
  /\ last' = [op |-> "shape", flag |-> flag, val |-> b]
  /\ Idle
  /\ UNCHANGED <<attrs, everFailed, elems, cbCalls, running>>

NextRender ==
  \/ \E img \in Images : SetImage(img)
  \/ \E name \in NumAttrs, v \in Vals : SetNum(name, v)
  \/ \E flag \in {"fill", "stroke"}, b \in BOOLEAN : SetShape(flag, b)
  \/ \E raises \in BOOLEAN : SceneRender(raises)
  \/ HitRender

SpecRender == Init /\ [][NextRender]_vars

-------------------------------------------------------------------------------
(* The buffer-canvas predicate *)

\* JavaScript truthiness of the values the predicate can return
Truthy(v) == v \notin {"false", "undefined"}

\* mutant: the conjunct this.getStage() is missing
_useBufferCanvas_noStage(sh) ==
  IF ~(sh.shadow \/ ~sh.opaque) THEN "false"
  ELSE IF ~sh.stroke THEN "false"
  ELSE "true"

\* _useBufferCanvas(): (hasShadow() || getAbsoluteOpacity() !== 1) &&
\* hasStroke() && getStage(); && yields its first falsy operand, else the
\* last one, and getStage() is the stage or undefined
_useBufferCanvas(sh) ==
  IF ~(sh.shadow \/ ~sh.opaque) THEN "false"
  ELSE IF ~sh.stroke THEN "false"
  ELSE IF sh.stage THEN "stage" ELSE "undefined"

\* the engine asks node._useBufferCanvas()
UseBufferCanvas ==
  /\ ret' = _useBufferCanvas(shape)
  /\ last' = [op |-> "useBuffer"]
  /\ ctx' = <<>>
  /\ threw' = FALSE
  /\ UNCHANGED <<attrs, shape, everFailed, elems, cbCalls, running>>

NextBuffer ==
  \/ \E flag \in DOMAIN NoShape, b \in BOOLEAN : SetShape(flag, b)
  \/ UseBufferCanvas

SpecBuffer == Init /\ [][NextBuffer]_vars

-------------------------------------------------------------------------------
(* Image.fromURL *)

URLs == {"a.png", "b.png"}

\* mutant: the source is assigned before crossOrigin
FromURLBody_srcFirst == <<"onload", "src", "crossOrigin">>

\* the statements of fromURL after createImageElement(), in program order
FromURLBody == <<"onload", "crossOrigin", "src">>

\* the statement call i is about to execute
Stmt(i) == FromURLBody[elems[i].pc]

\* the call returns after its last statement
Advance(i) ==
  /\ running' = IF elems[i].pc = Len(FromURLBody) THEN 0 ELSE i
  /\ UNCHANGED <<attrs, shape, last, ret, ctx, threw, everFailed>>

\* fromURL(url, callback) is entered: var img = Util.createImageElement()
FromURLCall(url) ==
  /\ running = 0
  /\ Len(elems) < MaxLoads
  /\ elems' = Append(elems, [url |-> url, pc |-> 1, onload |-> FALSE,
                             crossOrigin |-> "", src |-> "",
                             state |-> "idle"])
  /\ cbCalls' = Append(cbCalls, <<>>)
  /\ running' = Len(elems) + 1
  /\ UNCHANGED <<attrs, shape, last, ret, ctx, threw, everFailed>>

\* img.onload = function() {...}
FromURLOnload(i) ==
  /\ running = i /\ Stmt(i) = "onload"
  /\ elems' = [elems EXCEPT ![i].onload = TRUE, ![i].pc = @ + 1]
  /\ UNCHANGED cbCalls
  /\ Advance(i)

\* img.crossOrigin = 'Anonymous'
FromURLCrossOrigin(i) ==
  /\ running = i /\ Stmt(i) = "crossOrigin"
  /\ elems' = [elems EXCEPT ![i].crossOrigin = "Anonymous", ![i].pc = @ + 1]
  /\ UNCHANGED cbCalls
  /\ Advance(i)

\* img.src = url: the fetch starts
FromURLSrc(i) ==
  /\ running = i /\ Stmt(i) = "src"
  /\ elems' = [elems EXCEPT ![i].src = elems[i].url, ![i].state = "loading",
                            ![i].pc = @ + 1]
  /\ UNCHANGED cbCalls
  /\ Advance(i)

\* the load event of element i is delivered, once, when no call is running;
\* the installed handler builds new Image({image: img}) and calls callback
LoadCompletes(i) ==
  /\ running = 0
  /\ elems[i].state = "loading"
  /\ elems' = [elems EXCEPT ![i].state = "loaded"]
  /\ cbCalls' = IF elems[i].onload
                THEN [cbCalls EXCEPT ![i] = Append(@, Setter(EmptyAttrs, "image", i))]
                ELSE cbCalls
  /\ UNCHANGED <<attrs, shape, last, ret, ctx, threw, everFailed, running>>

\* the fetch of element i fails: no handler is installed for the error event
LoadFails(i) ==
  /\ running = 0
  /\ elems[i].state = "loading"
  /\ elems' = [elems EXCEPT ![i].state = "failed"]
  /\ UNCHANGED <<attrs, shape, last, ret, ctx, threw, everFailed, cbCalls, running>>

NextLoader ==
  \/ \E url \in URLs : FromURLCall(url)
  \/ \E i \in DOMAIN elems : FromURLOnload(i)
  \/ \E i \in DOMAIN elems : FromURLCrossOrigin(i)
  \/ \E i \in DOMAIN elems : FromURLSrc(i)
  \/ \E i \in DOMAIN elems : LoadCompletes(i)
  \/ \E i \in DOMAIN elems : LoadFails(i)

SpecLoader == Init /\ [][NextLoader]_vars

-------------------------------------------------------------------------------
(* Claims about the accessors, checked under SpecAttrs *)

ExplicitNonZero(a, name) == name \in DOMAIN a /\ a[name] # 0

\* C4 as stated: for every numeric v (0 included) and every node state,
\* node[name](v) followed by node[name]() returns v, for each of cropX,
\* cropY, cropWidth, cropHeight, width and height.
C4_RoundTripAll ==
  last.op = "set" => Get(attrs, last.attr) = last.val

\* C4 amended: the setter-then-getter round trip returns v for the four crop
\* attributes always, and for width and height whenever v is non-zero or no
\* image is set; width(0) or height(0) on a node with an image reads back as
\* the image's intrinsic width or height.
C4_RoundTrip ==
  last.op = "set" =>
    IF last.attr \in {"width", "height"} /\ last.val = 0 /\ HasImage(attrs)
    THEN Get(attrs, last.attr) =
           (IF last.attr = "width" THEN ImgWidth(attrs["image"])
                                   ELSE ImgHeight(attrs["image"]))
    ELSE Get(attrs, last.attr) = last.val

\* width(0) has just been called on a node that holds an image
C4_Witness ==
  /\ last.op = "set" /\ last.attr = "width" /\ last.val = 0
  /\ HasImage(attrs)
  /\ Get(attrs, "width") # 0

\* C5: getWidth() is the explicit width when set and non-zero, else the
\* image's intrinsic width when an image is set, else 0; getHeight() likewise
\* and independently: width(w) leaves getHeight() as it was.
C5_SizeFallback ==
  /\ [](/\ Get(attrs, "width") =
             (IF ExplicitNonZero(attrs, "width") THEN attrs["width"]
              ELSE IF HasImage(attrs) THEN ImgWidth(attrs["image"]) ELSE 0)
        /\ Get(attrs, "height") =
             (IF ExplicitNonZero(attrs, "height") THEN attrs["height"]
              ELSE IF HasImage(attrs) THEN ImgHeight(attrs["image"]) ELSE 0))
  /\ [][/\ (last'.op = "set" /\ last'.attr = "width")
             => Get(attrs', "height") = Get(attrs, "height")
        /\ (last'.op = "set" /\ last'.attr = "height")
             => Get(attrs', "width") = Get(attrs, "width")]_vars

\* an image of intrinsic size W x H, then width(w) with w # 0 and w # W:
\* the width reads w while the height still reads H
C5_Witness ==
  /\ last.op = "set" /\ last.attr = "width" /\ last.val # 0
  /\ HasImage(attrs)
  /\ last.val # ImgWidth(attrs["image"])
  /\ "height" \notin DOMAIN attrs
  /\ Get(attrs, "width") = last.val
  /\ Get(attrs, "height") = ImgHeight(attrs["image"])

-------------------------------------------------------------------------------
(* Claims about the composite crop accessor, checked under SpecCrop *)

\* C6: after any sequence of sets, crop(obj) followed by crop() returns every
\* value obj gave (all four for a full object) and the one-attribute setter is
\* read back through crop(); a partial crop(obj) leaves the components obj
\* does not name as crop() read them before; setting one crop component
\* leaves the other three as they were.
C6_CropComposite ==
  /\ [](/\ last.op = "crop" =>
             \A c \in DOMAIN last.val : getCrop(attrs)[c] = last.val[c]
        /\ last.op = "set" =>
             \A c \in DOMAIN getCrop(attrs) :
               CropAttr(c) = last.attr => getCrop(attrs)[c] = last.val)
  /\ [][/\ last'.op = "crop" =>
             \A c \in DOMAIN getCrop(attrs) \ DOMAIN last'.val :
               /\ getCrop(attrs')[c] = getCrop(attrs)[c]
               /\ Get(attrs', CropAttr(c)) = Get(attrs, CropAttr(c))
        /\ last'.op = "set" =>
             \A n \in CropAttrs \ {last'.attr} :
               Get(attrs', n) = Get(attrs, n)]_vars

\* crop({x: 1}) on a node whose other three components were set before to
\* non-default values: only x changed
C6_Witness ==
  /\ last.op = "crop" /\ DOMAIN last.val = {"x"} /\ last.val["x"] = 1
  /\ getCrop(attrs) = [x |-> 1, y |-> 1, width |-> 1, height |-> 1]

-------------------------------------------------------------------------------
(* Claims about drawing, checked under SpecRender *)

\* the value stored for a numeric attribute, 0 when never assigned
Stored0(name) == IF name \in DOMAIN attrs THEN attrs[name] ELSE 0

\* the positions in ctx of the calls named op
Positions(op) == {i \in DOMAIN ctx : ctx[i].op = op}

\* the four background calls for the node's current width and height
Background ==
  << [op |-> "beginPath", obj |-> "-", args |-> <<>>],
     [op |-> "rect", obj |-> "-",
      args |-> <<0, 0, Get(attrs, "width"), Get(attrs, "height")>>],
     [op |-> "closePath", obj |-> "-", args |-> <<>>],
     [op |-> "fillStrokeShape", obj |-> "this", args |-> <<>>] >>

\* the drawImage arguments the crop attributes call for
ExpectedBlit ==
  IF Stored0("cropWidth") # 0 /\ Stored0("cropHeight") # 0
  THEN <<Stored0("cropX"), Stored0("cropY"),
         Stored0("cropWidth"), Stored0("cropHeight"),
         0, 0, Get(attrs, "width"), Get(attrs, "height")>>
  ELSE <<0, 0, Get(attrs, "width"), Get(attrs, "height")>>

\* C2: a scene draw never lets an exception escape, also when drawImage
\* raises; with an image and a fill or stroke, beginPath, rect(0,0,w,h),
\* closePath, fillStrokeShape come first and in that order, and in every scene
\* draw each background call precedes the drawImage call.
C2_BlitFailureContained ==
  last.op = "scene" =>
    /\ ~threw
    /\ (HasImage(attrs) /\ (shape.fill \/ shape.stroke)) =>
         /\ Len(ctx) = 5
         /\ SubSeq(ctx, 1, 4) = Background
         /\ ctx[5].op = "drawImage"
    /\ \A i \in DOMAIN ctx, j \in Positions("drawImage") :
         ctx[i].op # "drawImage" => i < j

\* drawImage raised on a node with a stroke: the background is there, the
\* blit was attempted after it, nothing escaped
C2_Witness ==
  /\ last.op = "scene" /\ last.raised
  /\ shape.stroke /\ ~shape.fill
  /\ Len(ctx) = 5 /\ ctx[5].op = "drawImage"
  /\ ~threw

\* C3: with an image set, a scene draw issues exactly one drawImage call, on
\* the image, with (cropX, cropY, cropWidth, cropHeight, 0, 0, width, height)
\* when cropWidth and cropHeight are both non-zero and with
\* (0, 0, width, height) otherwise, whatever cropX and cropY are.
C3_BlitForm ==
  (last.op = "scene" /\ HasImage(attrs)) =>
    /\ Cardinality(Positions("drawImage")) = 1
    /\ \A j \in Positions("drawImage") :
         /\ ctx[j].obj = attrs["image"]
         /\ ctx[j].args = ExpectedBlit
         /\ Len(ctx[j].args) =
              (IF Stored0("cropWidth") # 0 /\ Stored0("cropHeight") # 0
               THEN 8 ELSE 4)

\* a cropped blit with a non-zero crop origin
C3_Witness ==
  /\ last.op = "scene" /\ HasImage(attrs)
  /\ Stored0("cropX") # 0 /\ Stored0("cropY") = 0
  /\ Stored0("cropWidth") # 0 /\ Stored0("cropHeight") # 0
  /\ \E j \in DOMAIN ctx : ctx[j].op = "drawImage" /\ Len(ctx[j].args) = 8

\* C7: a hit draw issues exactly beginPath, rect(0, 0, width, height),
\* closePath, fillStrokeShape(node) and never drawImage, whatever the image,
\* crop, fill and stroke attributes are.
C7_HitRect ==
  last.op = "hit" => (ctx = Background /\ Positions("drawImage") = {})

\* a hit draw of a cropped image with a fill
C7_Witness ==
  /\ last.op = "hit" /\ HasImage(attrs) /\ shape.fill
  /\ Stored0("cropWidth") # 0 /\ Stored0("cropHeight") # 0
  /\ Len(ctx) = 4

\* C8: without an image a scene draw never calls drawImage, and issues the
\* background path and fillStrokeShape iff a fill or a stroke is configured;
\* with neither it makes no call at all.
C8_NoImage ==
  (last.op = "scene" /\ ~HasImage(attrs)) =>
    /\ Positions("drawImage") = {}
    /\ (shape.fill \/ shape.stroke) => ctx = Background
    /\ ~(shape.fill \/ shape.stroke) => ctx = <<>>

\* the placeholder box: no image, a stroke only
C8_Witness ==
  /\ last.op = "scene" /\ ~HasImage(attrs)
  /\ shape.stroke /\ ~shape.fill
  /\ "width" \in DOMAIN attrs /\ attrs["width"] # 0
  /\ Len(ctx) = 4

\* C10: a scene or hit draw changes no attribute, and a scene draw whose
\* drawImage does not raise issues the drawImage call the current attributes
\* call for, also when earlier drawImage calls raised.
C10_Stateless ==
  [][/\ last'.op \in {"scene", "hit"} => (attrs' = attrs /\ shape' = shape)
     /\ (last'.op = "scene" /\ HasImage(attrs) /\ ~last'.raised) =>
          \E j \in DOMAIN ctx' :
            /\ ctx'[j] = [op |-> "drawImage", obj |-> attrs["image"],
                          args |-> ExpectedBlit]
            /\ \A k \in DOMAIN ctx' : ctx'[k].op = "drawImage" => k = j]_vars

\* a successful blit after an earlier one failed
C10_Witness ==
  /\ last.op = "scene" /\ ~last.raised /\ last.afterFailure
  /\ HasImage(attrs)
  /\ \E j \in DOMAIN ctx : ctx[j].op = "drawImage"

-------------------------------------------------------------------------------
(* Claims about the buffer-canvas predicate, checked under SpecBuffer *)

-------------------------------------------------------------------------------
(* Claims about fromURL, checked under SpecLoader *)

\* C9: in every fromURL call the source is assigned only after crossOrigin is
\* 'Anonymous' and the load handler is installed; a call's callback has run
\* once if its load completed and not at all otherwise (fetch failed, still
\* pending, not yet started), and what it received is a new node whose image
\* is that call's own element, whatever the other calls did.
C9_Loader ==
  \A i \in DOMAIN elems :
    /\ elems[i].src # "" =>
         /\ elems[i].crossOrigin = "Anonymous"
         /\ elems[i].onload
         /\ elems[i].src = elems[i].url
    /\ elems[i].state = "loaded" => Len(cbCalls[i]) = 1
    /\ elems[i].state # "loaded" => cbCalls[i] = <<>>
    /\ \A k \in DOMAIN cbCalls[i] :
         /\ DOMAIN cbCalls[i][k] = {"image"}
         /\ cbCalls[i][k]["image"] = i

\* two loads in flight, the second completed first and the first failed
C9_Witness ==
  /\ Len(elems) >= 2
  /\ elems[1].state = "failed" /\ cbCalls[1] = <<>>
  /\ elems[2].state = "loaded" /\ Len(cbCalls[2]) = 1

===============================================================================
